---- MODULE Spec2Model ----
(***************************************************************************)
(* BoothPic: the incremental vector indexing pipeline of                   *)
(* backend/app/services/vector_db.py (VectorDBService.seed_data).          *)
(*                                                                         *)
(* A seeding run is modelled as a process with a program counter:          *)
(*   idle/done/raised --StartRun--> scan --ScanPage--> loop                *)
(*   loop --ProcessItem (one iteration of the for loop)--> loop | final    *)
(*   final --Finish (final flush, is_complete)--> done | raised            *)
(* The feed file, the local image directory, the remote image hosts and    *)
(* the vector store are the environment.                                   *)
(***************************************************************************)
EXTENDS Integers, Sequences, FiniteSets, TLC

(***************************************************************************)
(* Program constants.                                                      *)
(***************************************************************************)
SKIP_LIMIT == 200

BATCH_SIZE == 50

SCROLL_LIMIT == 10000

MAX_ATTEMPTS == 3

\* wait_exponential(multiplier=1, min=2, max=10)
WAIT_MULTIPLIER == 1

WAIT_MIN == 2

WAIT_MAX == 10

OVERFETCH == 3

\* search_standalone.py: qdrant.search(limit=40), and 12 unique products
STANDALONE_LIMIT == 40

STANDALONE_UNIQUE == 12

\* scraper/scrape_all_popular.py
MAX_PAGES == 170

CONSECUTIVE_EMPTY_PAGES_LIMIT == 3

\* ThreadPoolExecutor(max_workers=5)
MAX_WORKERS == 5

(***************************************************************************)
(* Bounds of the model.                                                    *)
(***************************************************************************)
\* seed_data calls made on one service object
MaxRuns == 2

\* longest store outage that ends within a run, in store calls
MaxOutageLen == 2

\* most records the store hands out in one page of a scroll
MaxPage == 2

\* most points in the collection a search runs against
MaxHits == 4

\* products the points of that collection belong to
MaxProducts == 3

\* largest limit a search asks for
MaxLimit == 2

\* scraper processes started, one after the other
MaxScraperRuns == 2

\* scraper processes that call acquire_lock side by side
MaxProcs == 2

(***************************************************************************)
(* The state.                                                              *)
(***************************************************************************)
VARIABLES
    feed_exists,        \* os.path.exists(self.metadata_path)
    feed,               \* the feed file (its records: FeedFile(feed))
    store,              \* the collection in the vector store
    store_env,          \* the store's availability
    indexing_status,    \* self.indexing_status
    pc,                 \* where seed_data is
    run,                \* seed_data calls started so far
    items_to_process,   \* list(unique_items.values())
    existing_ids,       \* the existing-index set
    next_page,          \* the scan cursor
    idx,                \* items the loop has taken
    batch_points,       \* the pending batch
    img_count,          \* points added to the batch by this run
    consecutive_skips,  \* the consecutive-all-already-indexed counter
    upsert_calls,       \* history: the run's upsert calls
    last,               \* history: what the last loop iteration did
    audit,              \* history: the run so far, and the runs before it
    search              \* a search_similar call: its arguments and its result

\* scraper/scrape_all_popular.py: the files, and one scraper process
VARIABLES
    phase1_output,      \* the records of PHASE1_OUTPUT, in file order
    phase2_output,      \* the records of PHASE2_OUTPUT: how many per url
    progress_file,      \* the content of PROGRESS_FILE
    sc_pc,              \* where the scraper process is
    mode,               \* sys.argv[1]
    sc_run,             \* scraper processes started so far
    timed_out,          \* check_timeout(): time.time() - START_TIME > MAX_RUNTIME
    page_num,           \* the search page of phase 1
    consecutive_empty,  \* phase 1's counter of pages without a qualifying card
    existing_items,     \* phase 1's dict `existing` (its urls)
    progress,           \* the progress dict of the running phase
    phase2_done,        \* phase 2's dict of finished items (its urls)
    items_list,         \* list(phase1_items.values())
    start_index,        \* progress.get("phase2_last_index", 0)
    tasks,              \* phase 2: where the future of each index is
    write_lock,         \* threading.Lock(): the index whose task holds it
    output_at_start     \* history: PHASE2_OUTPUT when phase 2 began

\* the lock file, and the scraper processes that call acquire_lock
VARIABLES
    lock_file,          \* the content of LOCK_FILE
    procs               \* where each process is in acquire_lock, and what it read

\* search_standalone.py: the opt-out registry and the requests served
VARIABLES
    OPTED_OUT_SHOPS,    \* the module's set of opted-out identifiers
    blacklist,          \* the lines of blacklist.txt
    api_status,         \* the module's indexing_status
    handled,            \* history: the opt-out requests handled, and their outcome
    response            \* the response of the last /api/search request

(***************************************************************************)
(* Image references.  A reference is a string in the code; the model keeps *)
(* the parts the code inspects: the scheme prefix (startswith "http://" or *)
(* "https://"), the directory part and the base name (os.path.basename).   *)
(***************************************************************************)
Http(n) == [scheme |-> "https", dir |-> "pximg", name |-> n]

Local(d, n) == [scheme |-> "", dir |-> d, name |-> n]

DirCode(d) ==
    CASE d = "pximg" -> 0
      [] d = "raw_images" -> 1
      [] d = "images" -> 2
      [] OTHER -> 3

\* hashlib.md5(text.encode('utf-8')).hexdigest(): a fixed function of the
\* string alone; here an injective code of the string's parts.
Md5Hex(text) ==
    text.name * 16 + DirCode(text.dir) * 4
    + (CASE text.scheme = "https" -> 2 [] text.scheme = "http" -> 1 [] OTHER -> 0)

get_stable_uuid_PerRun(text) == <<"uuid", Md5Hex(text) + run>>

\* str(uuid.UUID(hexdigest)): the digest formatted as a UUID string.
get_stable_uuid(text) == <<"uuid", Md5Hex(text)>>

\* get_stable_uuid of search_standalone.py: the same digest, formatted the
\* same way
standalone_get_stable_uuid(text) == <<"uuid", Md5Hex(text)>>

is_url(img_rel_path) == img_rel_path.scheme \in {"http", "https"}

(***************************************************************************)
(* The environment of the image fetcher.                                   *)
(***************************************************************************)
\* remote references whose host may fail any number of GET attempts
FlakyRefs == {Http(90), Http(91)}

\* remote references whose bytes PIL cannot decode (Image.open raises)
CorruptUrls == {Http(95)}

\* local files PIL cannot decode, as <<directory, base name>>
CorruptFiles == {<<"raw_images", 96>>}

\* decoded images on which image_processor.get_embedding raises
UnembeddableRefs == {Http(97)}

\* files present under scraper_dir, as <<directory, base name>>
LocalFiles ==
    { <<"images", 80>>, <<"raw_images", 80>>, <<"raw_images", 81>>,
      <<"raw_images", 96>> }

path_exists(d, n) == <<d, n>> \in LocalFiles

(***************************************************************************)
(* Items (JSON objects: functions from keys to values) and feeds.          *)
(***************************************************************************)
\* a product url, written as its path
Url(n) == "/items/" \o ToString(n)

Title(n) == "item " \o ToString(n)

Item(n, imgs) ==
    [url |-> Url(n), images |-> imgs, title |-> Title(n), shop |-> "shop-a"]

Reverse(s) == [i \in 1..Len(s) |-> s[Len(s) + 1 - i]]

\* the k-th element of reversed(s)
Reversed(s, k) == s[Len(s) + 1 - k]

\* references already indexed when the model starts
OldRef(i) == Http(1 + (i % 3))

NewRefs(h, k) == [j \in 1..k |-> Http(1000 * h + j)]

\* A backlog feed, oldest record first: a tail item with one new image, pad
\* items whose image is already indexed, and head items (the newest) with
\* sizes[h] new images each.
FeedBacklog(sizes, pad) ==
    Reverse([h \in 1..Len(sizes) |-> Item(h, NewRefs(h, sizes[h]))]
            \o [i \in 1..pad |-> Item(100 + i, <<OldRef(i)>>)]
            \o <<Item(900, <<Http(500)>>)>>)

FeedMixed ==
    << Item(1, <<Http(109)>>),
       [url |-> Url(2), images |-> <<>>, title |-> Title(2)],
       [images |-> <<Http(102)>>, title |-> Title(3)],
       [url |-> "", images |-> <<Http(103)>>, title |-> Title(4)],
       Item(5, <<Http(90), Http(104)>>),
       Item(6, <<Http(105), Local("raw_images", 96), Http(106)>>),
       Item(1, <<Http(1), Http(101)>>),
       Item(7, <<Local("images", 80), Local("images", 81), Local("images", 82)>>),
       Item(8, <<Http(107), Http(97)>>),
       Item(9, <<Http(95), Http(108)>>),
       [url |-> Url(10), title |-> Title(10)],
       Item(11, <<Http(2), Http(3)>>) >>

\* one item with an image already indexed and a new one
FeedOneOldOneNew == << Item(1, <<Http(1), Http(101)>>) >>

\* a new image twice in one item, and in two items
FeedDups ==
    << Item(21, <<Http(201), Http(201)>>), Item(22, <<Http(201), Http(202)>>) >>

\* new images that give no point (a host that may fail every attempt, bytes
\* that do not decode, a file that is not there) after indexed ones
FeedUnfetchable ==
    << Item(33, <<Http(95), Local("images", 82)>>), Item(32, <<Http(2)>>),
       Item(31, <<Http(91)>>), Item(30, <<Http(1)>>) >>

\* 51 new images in items of 12, 12, 12, 13 and 2, before a full backlog
FeedBacklog51 == FeedBacklog(<<12, 12, 12, 13, 2>>, SKIP_LIMIT)

\* a backlog one item short of the early exit
FeedBacklog199 == FeedBacklog(<<1>>, SKIP_LIMIT - 1)

FeedBacklog200 == FeedBacklog(<<2>>, SKIP_LIMIT)

FeedBacklog53 == FeedBacklog(<<10, 10, 10, 10, 10, 3>>, 2)

\* the feed files the runs are made over, by name
Feeds ==
    { "absent", "one_old_one_new", "empty", "mixed", "dups", "unfetchable",
      "backlog_51",
      "backlog_199", "backlog_200", "backlog_53" }

\* the records of a feed file, oldest first
FeedFile(name) ==
    CASE name = "one_old_one_new" -> FeedOneOldOneNew
      [] name = "mixed" -> FeedMixed
      [] name = "dups" -> FeedDups
      [] name = "unfetchable" -> FeedUnfetchable
      [] name = "backlog_51" -> FeedBacklog51
      [] name = "backlog_199" -> FeedBacklog199
      [] name = "backlog_200" -> FeedBacklog200
      [] name = "backlog_53" -> FeedBacklog53
      [] OTHER -> <<>>

(***************************************************************************)
(* Python dict and list helpers.                                           *)
(***************************************************************************)
\* the elements of a list
SeqSet(s) == {s[i] : i \in 1..Len(s)}

\* item.get(key, default)
Get(item, key, default) == IF key \in DOMAIN item THEN item[key] ELSE default

\* `not item.get("images")`: the key is missing or the list is empty
HasImages(item) == Get(item, "images", <<>>) # <<>>

HasUrl_Always(item) == TRUE

\* `not item.get("url")`: the key is missing or the string is empty
HasUrl(item) == Get(item, "url", "") # ""

\* The load loop of lines 82-87 and list(unique_items.values()): the dict
\* holds one entry per url, at the position of the url's first record, with
\* the value of its last record (DictSet applied to each record in turn).
LoadUnique_FirstWins(lines) ==
    LET keyed == SelectSeq(lines, LAMBDA item : "url" \in DOMAIN item)
    IN  SelectSeq([i \in 1..Len(keyed) |->
                      IF \A j \in 1..(i - 1) : keyed[j].url # keyed[i].url
                      THEN keyed[i] ELSE <<>>],
                  LAMBDA item : item # <<>>)

LoadUnique(lines) ==
    LET keyed == SelectSeq(lines, LAMBDA item : "url" \in DOMAIN item)
        n == Len(keyed)
        first == SelectSeq([i \in 1..n |-> i],
                           LAMBDA i : \A j \in 1..(i - 1) : keyed[j].url # keyed[i].url)
        last_of(u) == CHOOSE i \in 1..n :
                          /\ keyed[i].url = u
                          /\ \A j \in (i + 1)..n : keyed[j].url # u
    IN  [k \in 1..Len(first) |-> keyed[last_of(keyed[first[k]].url)]]

(***************************************************************************)
(* The vector store: a set of points, at most one per id.                  *)
(***************************************************************************)
Payload(item, thumbnail_url) ==
    [ title |-> Get(item, "title", "Unknown"),
      price |-> Get(item, "price", "Unknown"),
      shopName |-> Get(item, "shop", "Unknown"),
      boothUrl |-> Get(item, "url", "#"),
      thumbnailUrl |-> thumbnail_url,
      category |-> Get(item, "category", "Unknown"),
      avatars |-> Get(item, "avatars", <<>>),
      colors |-> Get(item, "colors", <<>>) ]

\* image_processor.get_embedding(img): a fixed function of the image
Embedding(img) == <<"vec", Md5Hex(img)>>

PointStruct(id, vector, payload) ==
    [id |-> id, vector |-> vector, payload |-> payload]

PointIds(points) == {p.id : p \in points}

SeqIds(points) == {points[i].id : i \in 1..Len(points)}

StoreUpsert_Insert(st, points) == st \cup SeqSet(points)

\* client.upsert: insert or replace by id; of the points of the list that
\* share an id the last one stays.
StoreUpsert(st, points) ==
    {p \in st : p.id \notin SeqIds(points)}
    \cup {points[i] : i \in {k \in 1..Len(points) :
                                \A m \in (k + 1)..Len(points) :
                                    points[m].id # points[k].id}}

IdOrder(id) == id[2]

RECURSIVE FirstIds(_, _)
FirstIds(ids, n) ==
    IF n = 0 \/ ids = {} THEN {}
    ELSE LET m == CHOOSE x \in ids : \A y \in ids : IdOrder(x) <= IdOrder(y)
         IN  {m} \cup FirstIds(ids \ {m}, n - 1)

\* None in a string slot, and str(None)
None == "None"

\* None as the scan cursor
NoPage == <<>>

Scroll_Nothing(st, limit, offset) == [records |-> {}, next_page |-> NoPage]

Scroll_OnePage(st, limit, offset) ==
    [ records |-> IF Cardinality(PointIds(st)) <= limit THEN PointIds(st)
                  ELSE FirstIds(PointIds(st), limit),
      next_page |-> NoPage ]

\* client.scroll(limit, offset, with_payload=False, with_vectors=False):
\* the ids from the offset on in id order, at most limit of them, and the id
\* the next page starts at (None after the last page).
Scroll(st, limit, offset) ==
    LET from == IF offset = NoPage THEN PointIds(st)
                ELSE {i \in PointIds(st) : IdOrder(i) >= IdOrder(offset)}
        page == IF Cardinality(from) <= limit THEN from ELSE FirstIds(from, limit)
        rest == from \ page
    IN  [ records |-> page,
          next_page |-> IF rest = {} THEN NoPage
                        ELSE CHOOSE x \in rest :
                                 \A y \in rest : IdOrder(x) <= IdOrder(y) ]

\* the records of one page: the limit the scan asks for, within what the
\* store hands out in one page
PageLimit == IF SCROLL_LIMIT < MaxPage THEN SCROLL_LIMIT ELSE MaxPage

\* pages a complete scan of the store takes
PagesOf(st) ==
    IF st = {} THEN 1 ELSE (Cardinality(st) + PageLimit - 1) \div PageLimit

InitStore ==
    { PointStruct(get_stable_uuid(Http(n)), Embedding(Http(n)),
                  Payload(Item(100 + n, <<Http(n)>>), Http(n))) : n \in 1..3 }

(***************************************************************************)
(* The store's availability.  The failing store calls of a run form one    *)
(* outage: `down` calls still to fail, `forever` when it lasts until the   *)
(* run ends, and `had` once the run's outage has begun.                    *)
(***************************************************************************)
StoreUp == [down |-> 0, forever |-> FALSE, had |-> FALSE]

StoreCallOutcomes(env) ==
    IF env.forever THEN {[ok |-> FALSE, env |-> env]}
    ELSE IF env.down > 0
    THEN {[ok |-> FALSE, env |-> [env EXCEPT !.down = env.down - 1]]}
    ELSE {[ok |-> TRUE, env |-> env]}
         \cup (IF env.had THEN {}
               ELSE {[ok |-> FALSE,
                      env |-> [down |-> n - 1, forever |-> FALSE, had |-> TRUE]] :
                         n \in 1..MaxOutageLen}
                    \cup {[ok |-> FALSE,
                           env |-> [down |-> 0, forever |-> TRUE, had |-> TRUE]]})

scraper_vars ==
    << phase1_output, phase2_output, progress_file, sc_pc, mode, sc_run,
       timed_out, page_num, consecutive_empty, existing_items, progress, phase2_done,
       items_list, start_index, tasks, write_lock, output_at_start >>

lock_vars == << lock_file, procs >>

api_vars == << OPTED_OUT_SHOPS, blacklist, api_status, handled, response >>

seed_vars ==
    << feed_exists, feed, store, store_env, indexing_status, pc, run,
       items_to_process, existing_ids, next_page, idx, batch_points,
       img_count, consecutive_skips, upsert_calls, last, audit >>

vars == << seed_vars, search, scraper_vars, lock_vars, api_vars >>

NoItem == [kind |-> "none"]

\* scan_ok: every scroll call of the run succeeded; scans: the scroll calls
\* of the run; missed: the references
\* the run found not indexed and built no point for; produced: the ids of the
\* points the run added to the batch; before: the run before this one (its
\* outcome, scan_ok, and clean: it missed nothing), if there was one.
NewAudit(before) ==
    [ scan_ok |-> TRUE, scans |-> 0, missed |-> {}, produced |-> {},
      before |-> before ]

\* no search_similar call
NoSearch == [pc |-> "none"]

(***************************************************************************)
(* scraper/scrape_all_popular.py: the site, the files and the idle process. *)
(***************************************************************************)
\* The search result pages: the items with MIN_LIKES likes or more on each
\* page that shows cards; the pages after them show no card.
Site == << {1, 2, 3}, {4, 5, 6}, {}, {}, {} >>

\* search pages whose load may fail (lines 396-397 and 497-499)
FlakySearchPages == {2}

\* items whose detail page may fail to load (fetch_item_detail_v2 gives None)
UnreliableDetails == {Url(1), Url(5)}

SiteUrls == {Url(n) : n \in UNION SeqSet(Site)}

\* the record phase 1 writes for an item, and phase 2's (the keys the model
\* follows)
ItemData(n) == [url |-> Url(n), item_id |-> n]

\* PHASE2_OUTPUT without a record
EmptyOutput == [u \in SiteUrls |-> 0]

\* PROGRESS_FILE does not exist
NoProgressFile == [exists |-> FALSE]

\* load_progress (lines 180-184)
load_progress(file) ==
    IF file = NoProgressFile
    THEN [phase1_last_page |-> 0, phase2_last_index |-> 0]
    ELSE file

\* threading.Lock() that no thread holds
Unlocked == -1

\* the locals of a process that is not running
ProcessOff ==
    /\ mode = "none"
    /\ timed_out = FALSE
    /\ page_num = 0
    /\ consecutive_empty = 0
    /\ existing_items = {}
    /\ progress = load_progress(NoProgressFile)
    /\ phase2_done = {}
    /\ items_list = <<>>
    /\ start_index = 0
    /\ tasks = <<>>
    /\ write_lock = Unlocked
    /\ output_at_start = EmptyOutput

\* no scraper has run: no output, no progress file
ScraperInit ==
    /\ phase1_output = <<>>
    /\ phase2_output = EmptyOutput
    /\ progress_file = NoProgressFile
    /\ sc_pc = "off"
    /\ sc_run = 0
    /\ ProcessOff

(***************************************************************************)
(* The lock file of the scraper (lines 753-782).                           *)
(***************************************************************************)
\* LOCK_FILE does not exist
NoLockFile == [exists |-> FALSE]

\* the file `inode` at the path, holding `text` (<<>>: nothing written yet)
LockFile(text, inode) == [exists |-> TRUE, text |-> text, inode |-> inode]

\* the scraper processes, by pid
Pids == 11..(10 + MaxProcs)

\* old_pid: the pid read from the lock file; handle: the file the process
\* has open for writing
NotStarted == [pc |-> "not_started", old_pid |-> 0, handle |-> 0]

LockInit ==
    /\ lock_file = NoLockFile
    /\ procs = [p \in Pids |-> NotStarted]

(***************************************************************************)
(* search_standalone.py: the opt-out registry.                             *)
(***************************************************************************)
\* no /api/search request has been served
NoResponse == [status |-> 0, results |-> <<>>, after |-> {}]

ApiInit ==
    /\ OPTED_OUT_SHOPS = {}
    /\ blacklist = <<>>
    /\ api_status = [current |-> 0, is_complete |-> FALSE]
    /\ handled = {}
    /\ response = NoResponse

InitSeed ==
    /\ run = 0
    /\ store = InitStore
    /\ store_env = StoreUp
    /\ indexing_status =
           [total |-> 0, current |-> 0, is_complete |-> FALSE, last_item |-> None]
    /\ pc = "idle"
    /\ items_to_process = <<>>
    /\ existing_ids = {}
    /\ next_page = NoPage
    /\ idx = 0
    /\ batch_points = <<>>
    /\ img_count = 0
    /\ consecutive_skips = 0
    /\ upsert_calls = <<>>
    /\ last = NoItem
    /\ audit = NewAudit(<<>>)

Init ==
    /\ \E f \in Feeds : feed_exists = (f # "absent") /\ feed = f
    /\ InitSeed
    /\ search = NoSearch
    /\ ScraperInit /\ LockInit /\ ApiInit

(***************************************************************************)
(* The body of the per-image loop (lines 130-180).                         *)
(***************************************************************************)
\* Failed GET attempts the hosts may give each image of an item, in order:
\* only a flaky host fails, and only an image the loop fetches matters.
RECURSIVE FailChoices(_, _)
FailChoices(images, existing) ==
    IF images = <<>> THEN {<<>>}
    ELSE LET ref == Head(images)
             ks == IF /\ is_url(ref)
                      /\ ref \in FlakyRefs
                      /\ get_stable_uuid(ref) \notin existing
                   THEN 0..MAX_ATTEMPTS ELSE {0}
         IN  {<<k>> \o rest : k \in ks, rest \in FailChoices(Tail(images), existing)}

\* fetch_image under @retry(stop=stop_after_attempt(3)): the GET attempts
\* made when the host fails the first `fails` of them.
AttemptsMade_NoRetry(fails) == 1

AttemptsMade(fails) == IF fails >= MAX_ATTEMPTS THEN MAX_ATTEMPTS ELSE fails + 1

FetchSucceeds(fails) == fails < MAX_ATTEMPTS

\* wait_exponential(multiplier=1, min=2, max=10), called after the attempt
\* numbered attempt_number has failed:
\* max(max(0, min), min(multiplier * 2 ** (attempt_number - 1), max))
wait_exponential(attempt_number) ==
    LET result == WAIT_MULTIPLIER * 2 ^ (attempt_number - 1)
        capped == IF result < WAIT_MAX THEN result ELSE WAIT_MAX
        floor == IF 0 > WAIT_MIN THEN 0 ELSE WAIT_MIN
    IN  IF floor > capped THEN floor ELSE capped

\* the sleeps of one fetch_image call: one before each attempt but the first
Waits(made) == [k \in 1..(made - 1) |-> wait_exponential(k)]

ResolveLocal_NoFallback(ref) == <<ref.dir, ref.name>>

\* the file a relative reference resolves to (lines 156-159)
ResolveLocal(ref) ==
    IF path_exists(ref.dir, ref.name) THEN <<ref.dir, ref.name>>
    ELSE <<"raw_images", ref.name>>

\* thumbnail_url = f"/api/images/{filename}"
ApiImage(filename) == [scheme |-> "", dir |-> "/api/images", name |-> filename]

ImagesStart ==
    [ item_points |-> <<>>, all_images_already_indexed |-> TRUE,
      raised |-> FALSE, fetched |-> <<>>, attempts |-> <<>>, embedded |-> <<>> ]

\* Lines 168-180: the embedding and the point, or get_embedding's exception.
EmbedImage(item, ref, img, thumbnail_url, acc) ==
    IF img \in UnembeddableRefs
    THEN [acc EXCEPT !.raised = TRUE]
    ELSE [acc EXCEPT
            !.embedded = Append(@, ref),
            !.item_points =
                Append(@, PointStruct(get_stable_uuid(ref), Embedding(img),
                                      Payload(item, thumbnail_url)))]

\* Lines 141-154: a remote image; a failure is caught here and skips the image.
RemoteImage(item, ref, fails, acc) ==
    LET got == [acc EXCEPT !.fetched = Append(@, ref),
                           !.attempts = Append(@, [ref |-> ref, failed |-> fails,
                                                     made |-> AttemptsMade(fails),
                                                     waits |-> Waits(AttemptsMade(fails))])]
    IN  IF ~FetchSucceeds(fails) \/ ref \in CorruptUrls THEN got
        ELSE EmbedImage(item, ref, ref, ref, got)

\* Lines 155-166: a local image; Image.open is outside the inner try.
LocalImage(item, ref, acc) ==
    LET img_path == ResolveLocal(ref)
        got == [acc EXCEPT !.fetched = Append(@, ref)]
    IN  IF ~path_exists(img_path[1], img_path[2]) THEN got
        ELSE IF img_path \in CorruptFiles THEN [got EXCEPT !.raised = TRUE]
        ELSE EmbedImage(item, ref, Local(img_path[1], img_path[2]),
                        ApiImage(img_path[2]), got)

NewImage_FlagOnPoint(item, ref, fails, acc) ==
    LET r == IF is_url(ref) THEN RemoteImage(item, ref, fails, acc)
             ELSE LocalImage(item, ref, acc)
    IN  [r EXCEPT !.all_images_already_indexed =
                      acc.all_images_already_indexed
                      /\ Len(r.item_points) = Len(acc.item_points)]

\* Lines 135-180: an image whose identity is not in the existing-index set.
NewImage(item, ref, fails, acc) ==
    LET seen == [acc EXCEPT !.all_images_already_indexed = FALSE]
    IN  IF is_url(ref) THEN RemoteImage(item, ref, fails, seen)
        ELSE LocalImage(item, ref, seen)

ImageStep_NoSkip(item, ref, existing, fails, acc) ==
    NewImage(item, ref, fails, acc)

\* Lines 130-180: one image; acc is the state of the loop before it.
ImageStep(item, ref, existing, fails, acc) ==
    IF get_stable_uuid(ref) \in existing THEN acc
    ELSE NewImage(item, ref, fails, acc)

RECURSIVE ImagesLoop(_, _, _, _, _)
ImagesLoop(item, existing, fails, j, acc) ==
    IF j > Len(item.images) \/ acc.raised THEN acc
    ELSE ImagesLoop(item, existing, fails, j + 1,
                    ImageStep(item, item.images[j], existing, fails[j], acc))

(***************************************************************************)
(* seed_data.                                                              *)
(***************************************************************************)
Completed_Unset(status) == status

\* self.indexing_status["is_complete"] = True
Completed(status) == [status EXCEPT !.is_complete = TRUE]

NextSkips_NoReset(all_indexed, skips) == IF all_indexed THEN skips + 1 ELSE skips

\* Lines 182-185: the consecutive counter after an item.
NextSkips(all_indexed, skips) == IF all_indexed THEN skips + 1 ELSE 0

OnItemError_Abort(taken, total) == "raised"

\* Lines 201-202: the except clause logs, and the for loop goes on.
OnItemError(taken, total) == IF taken = total THEN "final" ELSE "loop"

NeedsFinalFlush_Never(batch) == FALSE

\* Line 205: `if batch_points:`
NeedsFinalFlush(batch) == batch # <<>>

FeedPresent_Always == TRUE

\* os.path.exists(self.metadata_path)
FeedPresent == feed_exists

\* Lines 74-91: the feed check, the load, total.
StartRun ==
    /\ pc \in {"idle", "done", "raised"}
    /\ run < MaxRuns
    /\ run' = run + 1
    /\ store_env' = StoreUp
    /\ existing_ids' = {}
    /\ next_page' = NoPage
    /\ idx' = 0
    /\ batch_points' = <<>>
    /\ img_count' = 0
    /\ consecutive_skips' = 0
    /\ upsert_calls' = <<>>
    /\ last' = NoItem
    /\ audit' = NewAudit(IF run = 0 THEN <<>>
                         ELSE << [ outcome |-> pc, scan_ok |-> audit.scan_ok,
                                   clean |-> audit.missed = {} ] >>)
    /\ IF ~FeedPresent
       THEN /\ indexing_status' = Completed(indexing_status)
            /\ items_to_process' = <<>>
            /\ pc' = "done"
       ELSE /\ items_to_process' = LoadUnique(IF feed_exists THEN FeedFile(feed) ELSE <<>>)
            /\ indexing_status' =
                   [indexing_status EXCEPT !.total = Len(items_to_process')]
            /\ pc' = "scan"
    /\ UNCHANGED <<feed_exists, feed, store, search>>
    /\ UNCHANGED <<scraper_vars, lock_vars, api_vars>>

KeptOnScanError_Dropped(ids) == {}

\* Lines 109-110: the except clause logs; existing_ids keeps what the pages
\* before the failure gave.
KeptOnScanError(ids) == ids

\* Lines 93-117: one client.scroll call of the scan; after the last page, or
\* when the call raises, the loop's locals are set and the loop begins.
ScanPage ==
    /\ pc = "scan"
    /\ \E o \in StoreCallOutcomes(store_env) :
          LET page == Scroll(store, PageLimit, next_page)
              more == o.ok /\ page.next_page # NoPage
          IN  /\ store_env' = o.env
              /\ existing_ids' =
                     IF o.ok THEN existing_ids \cup page.records
                     ELSE KeptOnScanError(existing_ids)
              /\ next_page' = IF o.ok THEN page.next_page ELSE next_page
              /\ audit' = [audit EXCEPT !.scan_ok = @ /\ o.ok, !.scans = @ + 1]
              /\ pc' = IF more THEN "scan"
                       ELSE IF items_to_process = <<>> THEN "final" ELSE "loop"
    /\ UNCHANGED <<feed_exists, feed, store, indexing_status, run,
                   items_to_process, idx, batch_points, img_count,
                   consecutive_skips, upsert_calls, last, search>>
    /\ UNCHANGED <<scraper_vars, lock_vars, api_vars>>

UpsertCall(points, count, ok, final) ==
    [ lo |-> count - Len(points) + 1, hi |-> count, size |-> Len(points),
      ids |-> SeqIds(points), ok |-> ok, final |-> final ]

\* the references of an item whose identity is not in the existing-index set
NotIndexed(item, existing) ==
    {ref \in SeqSet(item.images) : get_stable_uuid(ref) \notin existing}

ExistingAfterUpsert_Learns(ids, points) == ids \cup SeqIds(points)

\* Lines 191-193: the upsert and the clearing of the batch leave
\* existing_ids as the scan built it.
ExistingAfterUpsert(ids, points) == ids

BatchAfterUpsert_Cleared(batch, ok) == <<>>

\* Lines 191-193: `batch_points = []` follows the upsert, and is not reached
\* when the upsert raises.
BatchAfterUpsert(batch, ok) == IF ok THEN <<>> ELSE batch

\* Lines 120-202: one iteration of the for loop, its except clause included.
ProcessItem ==
    /\ pc = "loop"
    /\ idx < Len(items_to_process)
    /\ LET item == Reversed(items_to_process, idx + 1)
           total == Len(items_to_process)
           status == [indexing_status EXCEPT !.current = idx + 1]
       IN
       /\ idx' = idx + 1
       /\ IF ~HasImages(item) \/ ~HasUrl(item)
          THEN \* continue
               /\ indexing_status' = status
               /\ last' = [kind |-> "skipped", item |-> item]
               /\ pc' = IF idx' = total THEN "final" ELSE "loop"
               /\ UNCHANGED <<store, store_env, batch_points, img_count,
                              consecutive_skips, upsert_calls, audit,
                              existing_ids>>
          ELSE \E fails \in FailChoices(item.images, existing_ids) :
               LET r == ImagesLoop(item, existing_ids, fails, 1, ImagesStart)
                   skips == NextSkips(r.all_images_already_indexed, consecutive_skips)
                   batch == IF r.all_images_already_indexed THEN batch_points
                            ELSE batch_points \o r.item_points
                   flush == Len(batch) >= BATCH_SIZE
                   note == [ kind |-> "processed", item |-> item,
                             all_indexed |-> r.all_images_already_indexed,
                             fetched |-> r.fetched, attempts |-> r.attempts,
                             embedded |-> r.embedded,
                             added |-> r.item_points,
                             skips_before |-> consecutive_skips ]
               IN
               IF r.raised
               THEN \* an image raised: the except clause of line 201
                    /\ indexing_status' = status
                    /\ last' = [note EXCEPT !.kind = "exception", !.added = <<>>]
                    /\ audit' = [audit EXCEPT
                                   !.missed = @ \cup NotIndexed(item, existing_ids)]
                    /\ pc' = OnItemError(idx', total)
                    /\ UNCHANGED <<store, store_env, batch_points, img_count,
                                   consecutive_skips, upsert_calls, existing_ids>>
               ELSE
               /\ consecutive_skips' = skips
               /\ img_count' = IF r.all_images_already_indexed THEN img_count
                               ELSE img_count + Len(r.item_points)
               /\ last' = note
               /\ audit' = [audit EXCEPT
                              !.missed = @ \cup (NotIndexed(item, existing_ids)
                                                 \ SeqSet(r.embedded)),
                              !.produced = @ \cup SeqIds(r.item_points)]
               /\ \E o \in (IF flush THEN StoreCallOutcomes(store_env)
                            ELSE {[ok |-> TRUE, env |-> store_env]}) :
                     /\ store_env' = o.env
                     /\ upsert_calls' =
                            IF flush
                            THEN Append(upsert_calls,
                                        UpsertCall(batch, img_count', o.ok, FALSE))
                            ELSE upsert_calls
                     /\ store' = IF flush /\ o.ok THEN StoreUpsert(store, batch)
                                 ELSE store
                     /\ batch_points' = IF flush THEN BatchAfterUpsert(batch, o.ok)
                                        ELSE batch
                     /\ existing_ids' =
                            IF flush /\ o.ok
                            THEN ExistingAfterUpsert(existing_ids, batch)
                            ELSE existing_ids
                     /\ IF ~o.ok
                        THEN \* the upsert raised: the except clause of line 201
                             /\ indexing_status' = status
                             /\ pc' = OnItemError(idx', total)
                        ELSE IF skips >= SKIP_LIMIT
                        THEN \* break
                             /\ indexing_status' = status
                             /\ pc' = "final"
                        ELSE /\ indexing_status' =
                                    [status EXCEPT !.last_item = Get(item, "title", None)]
                             /\ pc' = IF idx' = total THEN "final" ELSE "loop"
    /\ UNCHANGED <<feed_exists, feed, run, items_to_process, next_page, search>>
    /\ UNCHANGED <<scraper_vars, lock_vars, api_vars>>

\* Lines 204-210: the final batch and is_complete; a raising upsert leaves
\* seed_data through the caller.
Finish ==
    /\ pc = "final"
    /\ LET flush == NeedsFinalFlush(batch_points)
       IN  \E o \in (IF flush THEN StoreCallOutcomes(store_env)
                     ELSE {[ok |-> TRUE, env |-> store_env]}) :
              /\ store_env' = o.env
              /\ upsert_calls' =
                     IF flush
                     THEN Append(upsert_calls,
                                 UpsertCall(batch_points, img_count, o.ok, TRUE))
                     ELSE upsert_calls
              /\ store' = IF flush /\ o.ok THEN StoreUpsert(store, batch_points)
                          ELSE store
              /\ indexing_status' =
                     IF o.ok THEN Completed(indexing_status) ELSE indexing_status
              /\ pc' = IF o.ok THEN "done" ELSE "raised"
    /\ UNCHANGED <<feed_exists, feed, run, items_to_process, existing_ids,
                   next_page, idx, batch_points, img_count, consecutive_skips,
                   last, audit, search>>
    /\ UNCHANGED <<scraper_vars, lock_vars, api_vars>>

\* The feed file is removed between two runs.
RemoveFeed ==
    /\ pc \in {"done", "raised"}
    /\ run < MaxRuns
    /\ feed_exists
    /\ feed_exists' = FALSE
    /\ UNCHANGED <<feed, store, store_env, indexing_status, pc, run,
                   items_to_process, existing_ids, next_page, idx, batch_points,
                   img_count, consecutive_skips, upsert_calls, last, audit,
                   search>>
    /\ UNCHANGED <<scraper_vars, lock_vars, api_vars>>

Next == StartRun \/ ScanPage \/ ProcessItem \/ Finish \/ RemoveFeed

Spec == Init /\ [][Next]_vars

\* seed_data, once called, runs on: the event loop keeps scheduling it.
LiveInit ==
    /\ Init
    /\ (feed_exists => feed \in {"empty", "one_old_one_new", "mixed",
                                 "backlog_200"})

FairSpec ==
    LiveInit /\ [][Next]_vars /\ WF_vars(ScanPage \/ ProcessItem \/ Finish)

(***************************************************************************)
(* search_similar (lines 212-257).                                         *)
(***************************************************************************)
\* The attributes of product k, as its feed record gives them.
ShopOf(k) == IF k % 2 = 1 THEN "shop-x" ELSE "shop-y"

CategoryOf(k) == IF k <= 2 THEN "3D" ELSE "2D"

AvatarsOf(k) ==
    CASE k % 4 = 1 -> <<"A">>
      [] k % 4 = 2 -> <<"B">>
      [] k % 4 = 3 -> <<"A", "B">>
      [] OTHER -> <<>>

ColorsOf(k) ==
    CASE k % 3 = 1 -> <<"C">>
      [] k % 3 = 2 -> <<"C", "D">>
      [] OTHER -> <<"D">>

Product(k, imgs) ==
    [ url |-> Url(k), images |-> imgs, title |-> Title(k), shop |-> ShopOf(k),
      category |-> CategoryOf(k), avatars |-> AvatarsOf(k),
      colors |-> ColorsOf(k) ]

\* a point of the collection: image i of product k
Hit(i, k) ==
    PointStruct(get_stable_uuid(Http(i)), Embedding(Http(i)),
                Payload(Product(k, <<Http(i)>>), Http(i)))

\* The collection as the query sees it: its points in the order of their
\* similarity to the query vector, the nearest first.
Collections ==
    UNION { { [i \in 1..n |-> Hit(i, ks[i])] : ks \in [1..n -> 1..MaxProducts] } :
            n \in 0..MaxHits }

\* FieldCondition(key=key, match=MatchValue(value=value))
MatchValue(key, value) == [key |-> key, any |-> {value}]

\* FieldCondition(key=key, match=MatchAny(any=values))
MatchAny(key, values) == [key |-> key, any |-> SeqSet(values)]

\* the values a payload holds under a key: the elements of a list, or the
\* one value of a keyword
FieldValues(payload, key) ==
    IF key \in {"avatars", "colors"} THEN SeqSet(payload[key])
    ELSE {payload[key]}

\* the store's test of one condition: some value of the field is one of the
\* condition's values
Satisfies(payload, cond) == FieldValues(payload, cond.key) \cap cond.any # {}

\* query_filter = None
NoQueryFilter == [none |-> TRUE]

\* the store's test of a Filter: every must condition and no must_not one
PassesFilter(payload, query_filter) ==
    \/ query_filter = NoQueryFilter
    \/ /\ \A i \in 1..Len(query_filter.must) :
              Satisfies(payload, query_filter.must[i])
       /\ \A c \in query_filter.must_not : ~Satisfies(payload, c)

\* Lines 226-232: one condition for each requested value of the attribute.
AttributeConditions(key, values) ==
    [i \in 1..Len(values) |-> MatchAny(key, <<values[i]>>)]

\* Lines 215-235: the filter of a call; None when there is no condition.
BuildFilter(excluded_shops, category, avatars, colors) ==
    LET must_not_conditions == {MatchValue("shopName", x) : x \in excluded_shops}
        conditions ==
            (IF category # None /\ category # ""
             THEN <<MatchValue("category", category)>> ELSE <<>>)
            \o AttributeConditions("avatars", avatars)
            \o AttributeConditions("colors", colors)
    IN  IF conditions # <<>> \/ must_not_conditions # {}
        THEN [must |-> conditions, must_not |-> must_not_conditions]
        ELSE NoQueryFilter

Min(a, b) == IF a < b THEN a ELSE b

QueryPoints_FilterAfterCut(ranked, query_filter, limit) ==
    SelectSeq(SubSeq(ranked, 1, Min(Len(ranked), limit)),
              LAMBDA p : PassesFilter(p.payload, query_filter))

\* client.query_points(query=vector, query_filter=query_filter, limit=limit)
\* .points: the nearest points that pass the filter, at most limit of them,
\* nearest first.
QueryPoints(ranked, query_filter, limit) ==
    LET passing == SelectSeq(ranked, LAMBDA p : PassesFilter(p.payload, query_filter))
    IN  SubSeq(passing, 1, Min(Len(passing), limit))

QueryLimit_Exact(limit) == limit

\* Line 242: limit=limit * 3
QueryLimit(limit) == limit * OVERFETCH

IsNewProduct_Always(url, seen_urls) == TRUE

\* Line 251: `if url not in seen_urls`
IsNewProduct(url, seen_urls) == url \notin seen_urls

EnoughResults_Never(unique_results, limit) == FALSE

\* Line 254: `if len(unique_results) >= limit`
EnoughResults(unique_results, limit) == Len(unique_results) >= limit

\* Lines 247-257: the loop over raw_results from its j-th hit on.
RECURSIVE DedupLoop(_, _, _, _, _)
DedupLoop(raw_results, limit, j, unique_results, seen_urls) ==
    IF j > Len(raw_results) THEN unique_results
    ELSE LET hit == raw_results[j]
             url == Get(hit.payload, "boothUrl", None)
             fresh == IsNewProduct(url, seen_urls)
             unique == IF fresh THEN Append(unique_results, hit)
                       ELSE unique_results
             seen == IF fresh THEN seen_urls \cup {url} ELSE seen_urls
         IN  IF EnoughResults(unique, limit) THEN unique
             ELSE DedupLoop(raw_results, limit, j + 1, unique, seen)

\* Lines 212-257: one call of search_similar; queries is the history of the
\* query_points calls it made.
Search ==
    /\ search.pc = "called"
    /\ LET query_filter == BuildFilter(search.excluded_shops, search.category,
                                       search.avatars, search.colors)
           raw_results == QueryPoints(search.ranked, query_filter,
                                      QueryLimit(search.limit))
       IN  search' = [search EXCEPT
                        !.pc = "returned",
                        !.queries = Append(@, [ query_filter |-> query_filter,
                                                limit |-> QueryLimit(search.limit) ]),
                        !.raw_results = raw_results,
                        !.unique_results =
                            DedupLoop(raw_results, search.limit, 1, <<>>, {})]
    /\ UNCHANGED <<feed_exists, feed, store, store_env, indexing_status, pc,
                   run, items_to_process, existing_ids, next_page, idx,
                   batch_points, img_count, consecutive_skips, upsert_calls,
                   last, audit>>
    /\ UNCHANGED <<scraper_vars, lock_vars, api_vars>>

\* a call without filter arguments
NoFilter ==
    [excluded_shops |-> {}, category |-> None, avatars |-> <<>>, colors |-> <<>>]

\* the filter arguments of the calls
FilterArgs ==
    { NoFilter,
      [NoFilter EXCEPT !.excluded_shops = {"shop-x"}],
      [NoFilter EXCEPT !.excluded_shops = {"shop-x", "shop-y"}],
      [NoFilter EXCEPT !.category = "3D"],
      [NoFilter EXCEPT !.avatars = <<"A">>],
      [NoFilter EXCEPT !.avatars = <<"A", "B">>],
      [NoFilter EXCEPT !.colors = <<"C", "D">>],
      [NoFilter EXCEPT !.avatars = <<"A">>, !.colors = <<"C">>],
      [NoFilter EXCEPT !.excluded_shops = {"shop-y"}, !.avatars = <<"A">>] }

\* a search_similar call on a service that is not seeding
SearchInit ==
    /\ feed_exists = FALSE
    /\ feed = "absent"
    /\ InitSeed
    /\ ScraperInit /\ LockInit /\ ApiInit
    /\ \E ranked \in Collections, limit \in 0..MaxLimit, args \in FilterArgs :
          search = [ pc |-> "called", ranked |-> ranked, limit |-> limit,
                     excluded_shops |-> args.excluded_shops,
                     category |-> args.category, avatars |-> args.avatars,
                     colors |-> args.colors, queries |-> <<>>,
                     raw_results |-> <<>>, unique_results |-> <<>> ]

SearchNext == Search

SearchSpec == SearchInit /\ [][SearchNext]_vars

(***************************************************************************)
(* scraper/scrape_all_popular.py: main, phase 1 and phase 2.               *)
(***************************************************************************)
\* the urls with a record in PHASE2_OUTPUT: the keys load_existing_items gives
DoneUrls(output) == {u \in SiteUrls : output[u] > 0}

\* load_existing_items (lines 192-204) on PHASE1_OUTPUT: the values of a dict
\* keyed by url
load_existing_items(lines) == LoadUnique(lines)

\* the cards of a page are taken from the top: the items in page order
RECURSIVE Ascending(_)
Ascending(S) ==
    IF S = {} THEN <<>>
    ELSE LET n == CHOOSE x \in S : \A y \in S : x <= y
         IN  <<n>> \o Ascending(S \ {n})

phase1_locals == << page_num, consecutive_empty, existing_items >>

phase2_locals ==
    << phase2_done, items_list, start_index, tasks, write_lock, output_at_start >>

file_vars == << phase1_output, phase2_output, progress_file >>

not_scraper == << seed_vars, search, lock_vars, api_vars >>

\* the locals of phase 1 are gone
Phase1Gone ==
    /\ page_num' = 0
    /\ consecutive_empty' = 0
    /\ existing_items' = {}

\* the locals of phase 2 are gone
Phase2Gone ==
    /\ phase2_done' = {}
    /\ items_list' = <<>>
    /\ start_index' = 0
    /\ tasks' = <<>>
    /\ write_lock' = Unlocked
    /\ output_at_start' = EmptyOutput

\* the process is gone
ProcessGone ==
    /\ mode' = "none"
    /\ timed_out' = FALSE
    /\ progress' = load_progress(NoProgressFile)
    /\ Phase1Gone
    /\ Phase2Gone

\* main (lines 788-805): a process starts; START_TIME is the time of its start
Launch ==
    /\ sc_pc \in {"off", "killed"}
    /\ sc_run < MaxScraperRuns
    /\ sc_run' = sc_run + 1
    /\ \E m \in {"all", "phase1", "phase2"} :
          /\ mode' = m
          /\ sc_pc' = IF m \in {"all", "phase1"} THEN "phase1_start"
                      ELSE "phase2_start"
    /\ UNCHANGED <<file_vars, timed_out, progress, phase1_locals, phase2_locals>>
    /\ UNCHANGED not_scraper

\* Lines 338-344: phase 1 resumes after the last page of the progress file.
Phase1Start ==
    /\ sc_pc = "phase1_start"
    /\ progress' = load_progress(progress_file)
    /\ page_num' = progress'.phase1_last_page + 1
    /\ existing_items' = {item.url : item \in SeqSet(load_existing_items(phase1_output))}
    /\ consecutive_empty' = 0
    /\ sc_pc' = IF page_num' > MAX_PAGES THEN "phase1_end" ELSE "phase1"
    /\ UNCHANGED <<file_vars, mode, sc_run, timed_out, phase2_locals>>
    /\ UNCHANGED not_scraper

\* what loading a search page may give: its cards, or no card in time (the
\* `continue` of line 397) or an exception (line 497)
PageOutcomes(n) ==
    IF n > Len(Site) THEN {"failed"}
    ELSE IF n \in FlakySearchPages THEN {"cards", "failed"}
    ELSE {"cards"}

\* Lines 491-493: `if check_timeout(): break`, after the page's progress.
StopsPhase1(late) == late

\* Lines 362-499: one iteration of the loop over the search pages.  The time
\* passes while the page is loaded: the budget may be exceeded when it ends.
Phase1Page ==
    /\ sc_pc = "phase1"
    /\ page_num <= MAX_PAGES
    /\ \E outcome \in PageOutcomes(page_num),
          late \in (IF timed_out THEN {TRUE} ELSE {FALSE, TRUE}) :
          LET next_pc == IF page_num + 1 > MAX_PAGES THEN "phase1_end"
                         ELSE "phase1"
              qualifying == Site[page_num]
              new == Ascending({n \in qualifying : Url(n) \notin existing_items})
              empty == qualifying = {}
          IN  /\ timed_out' = late
              /\ IF outcome = "failed"
                 THEN /\ page_num' = page_num + 1
                      /\ sc_pc' = next_pc
                      /\ UNCHANGED <<file_vars, consecutive_empty,
                                     existing_items, progress>>
                 ELSE /\ phase1_output' =
                             phase1_output \o [i \in 1..Len(new) |-> ItemData(new[i])]
                      /\ existing_items' =
                             existing_items \cup {Url(n) : n \in qualifying}
                      /\ consecutive_empty' =
                             IF empty THEN consecutive_empty + 1 ELSE 0
                      /\ IF empty /\ consecutive_empty' >= CONSECUTIVE_EMPTY_PAGES_LIMIT
                         THEN \* break, before the progress is saved
                              /\ sc_pc' = "phase1_end"
                              /\ UNCHANGED <<page_num, progress, progress_file>>
                         ELSE /\ progress' =
                                     [progress EXCEPT !.phase1_last_page = page_num]
                              /\ progress_file' = progress'
                              /\ IF StopsPhase1(late)
                                 THEN sc_pc' = "phase1_end" /\ page_num' = page_num
                                 ELSE sc_pc' = next_pc /\ page_num' = page_num + 1
                      /\ UNCHANGED phase2_output
    /\ UNCHANGED <<mode, sc_run, phase2_locals>>
    /\ UNCHANGED not_scraper

\* Lines 501-505 and 804: phase 1 returns; main goes on with phase 2 in
\* mode "all", whatever ended phase 1.
Phase1End ==
    /\ sc_pc = "phase1_end"
    /\ sc_pc' = IF mode = "all" THEN "phase2_start" ELSE "exit"
    /\ Phase1Gone
    /\ UNCHANGED <<file_vars, mode, sc_run, timed_out, progress, phase2_locals>>
    /\ UNCHANGED not_scraper

\* Lines 518-533 and 571-572: the loads, and one future submitted for each
\* index from start_index on.
Phase2Start ==
    /\ sc_pc = "phase2_start"
    /\ LET phase1_items == load_existing_items(phase1_output)
           total == Len(phase1_items)
       IN  IF phase1_items = <<>>
           THEN /\ sc_pc' = "exit"
                /\ UNCHANGED <<progress, phase2_locals>>
           ELSE /\ phase2_done' = DoneUrls(phase2_output)
                /\ progress' = load_progress(progress_file)
                /\ start_index' = progress'.phase2_last_index
                /\ items_list' = phase1_items
                /\ tasks' = [i \in 1..total |->
                                IF i - 1 >= start_index' THEN "queued"
                                ELSE "unsubmitted"]
                /\ write_lock' = Unlocked
                /\ output_at_start' = phase2_output
                /\ sc_pc' = "phase2"
    /\ UNCHANGED <<file_vars, mode, sc_run, timed_out, phase1_locals>>
    /\ UNCHANGED not_scraper

\* the indexes whose process_item call is running
Running == {k \in 0..(Len(tasks) - 1) :
               tasks[k + 1] \in {"fetching", "fetched", "recording"}}

\* Line 538: `if item_url in phase2_done`
AlreadyDone(item_url, done) == item_url \in done

\* Lines 535-541: a worker takes the first queued future (nothing consults
\* check_timeout before a future starts); process_item returns at once for a
\* url that is done.
TaskBegin ==
    /\ sc_pc = "phase2"
    /\ \E k \in 0..(Len(tasks) - 1) :
          /\ tasks[k + 1] = "queued"
          /\ \A j \in 0..(k - 1) : tasks[j + 1] # "queued"
          /\ Cardinality(Running) < MAX_WORKERS
          /\ tasks' = [tasks EXCEPT ![k + 1] =
                          IF AlreadyDone(items_list[k + 1].url, phase2_done)
                          THEN "returned" ELSE "fetching"]
    /\ UNCHANGED <<file_vars, sc_pc, mode, sc_run, timed_out, progress,
                   phase1_locals, phase2_done, items_list, start_index,
                   write_lock, output_at_start>>
    /\ UNCHANGED not_scraper

\* Lines 544-546 and 566-569: fetch_item_detail_v2 gives the detail or None.
FetchDetail ==
    /\ sc_pc = "phase2"
    /\ \E k \in 0..(Len(tasks) - 1) :
          /\ tasks[k + 1] = "fetching"
          /\ \E detail \in (IF items_list[k + 1].url \in UnreliableDetails
                            THEN {TRUE, FALSE} ELSE {TRUE}) :
                tasks' = [tasks EXCEPT ![k + 1] =
                             IF detail THEN "fetched" ELSE "returned"]
    /\ UNCHANGED <<file_vars, sc_pc, mode, sc_run, timed_out, progress,
                   phase1_locals, phase2_done, items_list, start_index,
                   write_lock, output_at_start>>
    /\ UNCHANGED not_scraper

CanAcquire_Always(lock) == TRUE

\* `with write_lock:` is entered when no thread holds the lock
CanAcquire(lock) == lock = Unlocked

\* Lines 547-549: the lock is taken and the record appended to the output.
WriteRecord ==
    /\ sc_pc = "phase2"
    /\ \E k \in 0..(Len(tasks) - 1) :
          /\ tasks[k + 1] = "fetched"
          /\ CanAcquire(write_lock)
          /\ write_lock' = k
          /\ phase2_output' =
                 [phase2_output EXCEPT ![items_list[k + 1].url] = @ + 1]
          /\ tasks' = [tasks EXCEPT ![k + 1] = "recording"]
    /\ UNCHANGED <<phase1_output, progress_file, sc_pc, mode, sc_run, timed_out,
                   progress, phase1_locals, phase2_done, items_list,
                   start_index, output_at_start>>
    /\ UNCHANGED not_scraper

\* Lines 553-555: the progress after the item at index idx is recorded
AdvanceIndex(k, last_index) == IF k > last_index THEN k + 1 ELSE last_index

\* Lines 550-564: the done-map and the progress are updated, the lock is
\* released, and process_item returns the detail, timed out or not.
UpdateDone ==
    /\ sc_pc = "phase2"
    /\ \E k \in 0..(Len(tasks) - 1) :
          /\ tasks[k + 1] = "recording"
          /\ phase2_done' = phase2_done \cup {items_list[k + 1].url}
          /\ progress' = [progress EXCEPT !.phase2_last_index =
                             AdvanceIndex(k, progress.phase2_last_index)]
          /\ progress_file' = IF progress' # progress THEN progress'
                              ELSE progress_file
          /\ write_lock' = Unlocked
          /\ tasks' = [tasks EXCEPT ![k + 1] = "returned"]
    /\ UNCHANGED <<phase1_output, phase2_output, sc_pc, mode, sc_run, timed_out,
                   phase1_locals, items_list, start_index, output_at_start>>
    /\ UNCHANGED not_scraper

\* Lines 581-583: progress["phase2_last_index"] = total
FinalIndex(last_index, total) == total

\* Lines 571-586: every future has completed; the final progress is saved.
Phase2Finish ==
    /\ sc_pc = "phase2"
    /\ \A i \in 1..Len(tasks) : tasks[i] \in {"unsubmitted", "returned"}
    /\ progress' = [progress EXCEPT !.phase2_last_index =
                       FinalIndex(progress.phase2_last_index, Len(items_list))]
    /\ progress_file' = progress'
    /\ sc_pc' = "exit"
    /\ UNCHANGED <<phase1_output, phase2_output, mode, sc_run, timed_out,
                   phase1_locals, phase2_locals>>
    /\ UNCHANGED not_scraper

\* Lines 807-817: the summary; the process ends.
Exit ==
    /\ sc_pc = "exit"
    /\ sc_pc' = "off"
    /\ ProcessGone
    /\ UNCHANGED <<file_vars, sc_run>>
    /\ UNCHANGED not_scraper

\* The budget is exceeded while details are being fetched.
Expire ==
    /\ sc_pc = "phase2"
    /\ Running # {}
    /\ ~timed_out
    /\ timed_out' = TRUE
    /\ UNCHANGED <<file_vars, sc_pc, mode, sc_run, progress, phase1_locals,
                   phase2_locals>>
    /\ UNCHANGED not_scraper

\* The process is interrupted (a signal, the end of the job that runs it).
Kill ==
    /\ sc_pc \in {"phase1", "phase2"}
    /\ sc_pc' = "killed"
    /\ ProcessGone
    /\ UNCHANGED <<file_vars, sc_run>>
    /\ UNCHANGED not_scraper

ScraperNext ==
    \/ Launch \/ Phase1Start \/ Phase1Page \/ Phase1End \/ Phase2Start
    \/ TaskBegin \/ FetchDetail \/ WriteRecord \/ UpdateDone \/ Phase2Finish
    \/ Exit \/ Expire \/ Kill

\* the scraper beside a service that is not seeding
ScraperSpecInit ==
    /\ feed_exists = FALSE
    /\ feed = "absent"
    /\ InitSeed
    /\ search = NoSearch
    /\ ScraperInit /\ LockInit /\ ApiInit

ScraperSpec == ScraperSpecInit /\ [][ScraperNext]_vars

(***************************************************************************)
(* acquire_lock and release_lock (lines 755-782), one step per file system *)
(* call, for processes that run side by side.                              *)
(***************************************************************************)
not_lock == << seed_vars, search, scraper_vars, api_vars >>

\* os.kill(old_pid, 0) succeeds: the process exists
Alive(pid) ==
    pid \in Pids /\ procs[pid].pc \notin {"not_started", "exited", "crashed"}

\* Line 758: `if LOCK_FILE.exists():`
CheckExists ==
    /\ \E p \in Pids :
          /\ procs[p].pc = "not_started"
          /\ procs' = [procs EXCEPT ![p].pc =
                          IF lock_file.exists THEN "read" ELSE "open"]
    /\ UNCHANGED lock_file
    /\ UNCHANGED not_lock

\* Lines 760-762 and 772-773: the pid is read; a file that is gone or holds
\* no number is unlinked (missing_ok) and the lock is taken.
ReadPid ==
    /\ \E p \in Pids :
          /\ procs[p].pc = "read"
          /\ IF ~lock_file.exists
             THEN /\ procs' = [procs EXCEPT ![p].pc = "open"]
                  /\ UNCHANGED lock_file
             ELSE IF lock_file.text = <<>>
             THEN /\ procs' = [procs EXCEPT ![p].pc = "open"]
                  /\ lock_file' = NoLockFile
             ELSE /\ procs' = [procs EXCEPT ![p].pc = "probe",
                                            ![p].old_pid = lock_file.text[1]]
                  /\ UNCHANGED lock_file
    /\ UNCHANGED not_lock

\* Lines 765-771: a live owner ends this process (sys.exit(1), before atexit
\* knows release_lock); a stale file is unlinked.
ProbeOwner ==
    /\ \E p \in Pids :
          /\ procs[p].pc = "probe"
          /\ IF Alive(procs[p].old_pid)
             THEN /\ procs' = [procs EXCEPT ![p].pc = "exited"]
                  /\ UNCHANGED lock_file
             ELSE /\ procs' = [procs EXCEPT ![p].pc = "open"]
                  /\ lock_file' = NoLockFile
    /\ UNCHANGED not_lock

\* Line 775: open(LOCK_FILE, 'w') creates the file, or empties the one there.
OpenLock ==
    /\ \E p \in Pids :
          /\ procs[p].pc = "open"
          /\ lock_file' = IF lock_file.exists THEN LockFile(<<>>, lock_file.inode)
                          ELSE LockFile(<<>>, p)
          /\ procs' = [procs EXCEPT ![p].pc = "write",
                                    ![p].handle = lock_file'.inode]
    /\ UNCHANGED not_lock

\* Lines 776-778: the pid is written to the open file (which may be at the
\* path no more), release_lock is registered, and acquire_lock returns.
WritePid ==
    /\ \E p \in Pids :
          /\ procs[p].pc = "write"
          /\ lock_file' = IF lock_file.exists /\ lock_file.inode = procs[p].handle
                          THEN LockFile(<<p>>, lock_file.inode)
                          ELSE lock_file
          /\ procs' = [procs EXCEPT ![p].pc = "running"]
    /\ UNCHANGED not_lock

\* Lines 781-782, at exit: LOCK_FILE.unlink(missing_ok=True)
ReleaseLock ==
    /\ \E p \in Pids :
          /\ procs[p].pc = "running"
          /\ procs' = [procs EXCEPT ![p].pc = "exited"]
    /\ lock_file' = NoLockFile
    /\ UNCHANGED not_lock

\* A process is killed: atexit does not run, the lock file stays.
Crash ==
    /\ \E p \in Pids :
          /\ procs[p].pc = "running"
          /\ procs' = [procs EXCEPT ![p].pc = "crashed"]
    /\ UNCHANGED lock_file
    /\ UNCHANGED not_lock

LockNext ==
    \/ CheckExists \/ ReadPid \/ ProbeOwner \/ OpenLock \/ WritePid
    \/ ReleaseLock \/ Crash

LockSpec == ScraperSpecInit /\ [][LockNext]_vars

(***************************************************************************)
(* search_standalone.py: /api/opt-out and /api/search.                     *)
(***************************************************************************)
not_api == << seed_vars, search, scraper_vars, lock_vars >>

\* the shopUrl values of the opt-out requests
OptOutInputs ==
    { "Mame-Shop", " Mame-Shop ", "alice-atelier",
      "https://mame-shop.booth.pm/", "" }

\* str.strip() on those values
strip(text) == IF text = " Mame-Shop " THEN "Mame-Shop" ELSE text

\* str.lower() on those values
lower(text) == IF text = "Mame-Shop" THEN "mame-shop" ELSE text

\* get_booth_identifiers (lines 264-292): an empty text returns the empty
\* set at line 272; any other text reaches `re.search` at line 275, and the
\* module does not import re: NameError.
get_booth_identifiers(text) ==
    IF strip(text) = "" THEN [raised |-> FALSE, ids |-> {}]
    ELSE [raised |-> TRUE, ids |-> {}]

\* blacklist.txt when the module is loaded
BlacklistFiles ==
    { <<>>, <<"alice-atelier">>, <<"# opted out", "Mame-Shop">>,
      <<"mame-shop", "">> }

\* load_blacklist (lines 298-306): the lines, stripped, that are not empty
\* and not comments
load_blacklist(lines) ==
    {strip(lines[i]) : i \in {j \in 1..Len(lines) :
                                 lines[j] # "" /\ lines[j] # "# opted out"}}

\* a point of the in-memory collection (lines 218-224)
ApiHit(shop, n) == [id |-> n, payload |-> [shopName |-> shop, boothUrl |-> Url(n)]]

\* the collection in the order of similarity to the uploaded image
ApiRankings ==
    { << ApiHit("Mame-Shop", 1), ApiHit("alice-atelier", 2), ApiHit("Mame-Shop", 1),
         ApiHit("VRC-Fashion", 3) >>,
      << ApiHit("alice-atelier", 2), ApiHit("alice-atelier", 4) >> }

\* Lines 413-437: one must_not condition for each opted-out identifier.
OptOutFilter(excluded) ==
    IF excluded = {} THEN NoQueryFilter
    ELSE [must |-> <<>>, must_not |-> {MatchValue("shopName", x) : x \in excluded}]

\* Lines 449-458: the first hit of each boothUrl, until 12 are kept.
RECURSIVE StandaloneDedup(_, _, _, _)
StandaloneDedup(hits, j, unique_results, seen_urls) ==
    IF j > Len(hits) THEN unique_results
    ELSE LET url == hits[j].payload.boothUrl
             kept == IF url \notin seen_urls THEN Append(unique_results, hits[j])
                     ELSE unique_results
         IN  IF Len(kept) >= STANDALONE_UNIQUE THEN kept
             ELSE StandaloneDedup(hits, j + 1, kept, seen_urls \cup {url})

\* Lines 339-369: POST /api/opt-out.
OptOut ==
    /\ \E shopUrl \in OptOutInputs :
          LET identifier == strip(shopUrl)
              new_ids == get_booth_identifiers(identifier)
          IN  IF identifier = ""
              THEN \* HTTPException(status_code=400)
                   /\ handled' = handled \cup {[identifier |-> identifier, status |-> 400]}
                   /\ UNCHANGED <<OPTED_OUT_SHOPS, blacklist>>
              ELSE IF new_ids.raised
              THEN \* the exception leaves the handler: 500
                   /\ handled' = handled \cup {[identifier |-> identifier, status |-> 500]}
                   /\ UNCHANGED <<OPTED_OUT_SHOPS, blacklist>>
              ELSE /\ OPTED_OUT_SHOPS' =
                          OPTED_OUT_SHOPS \cup new_ids.ids \cup {lower(identifier)}
                   /\ blacklist' = Append(blacklist, identifier)
                   /\ handled' = handled \cup {[identifier |-> identifier, status |-> 200]}
    /\ UNCHANGED <<api_status, response>>
    /\ UNCHANGED not_api

\* Lines 372-479: POST /api/search.
SearchImage ==
    /\ IF ~api_status.is_complete /\ api_status.current = 0
       THEN response' = [status |-> 503, results |-> <<>>, after |-> handled]
       ELSE \E ranked \in ApiRankings :
               LET search_result ==
                       QueryPoints(ranked, OptOutFilter(OPTED_OUT_SHOPS),
                                   STANDALONE_LIMIT)
               IN  response' = [ status |-> 200,
                                 results |-> StandaloneDedup(search_result, 1, <<>>, {}),
                                 after |-> handled ]
    /\ UNCHANGED <<OPTED_OUT_SHOPS, blacklist, api_status, handled>>
    /\ UNCHANGED not_api

\* Lines 154-249: the background seeding goes on, and ends.
SeedProgress ==
    /\ ~api_status.is_complete
    /\ \/ api_status.current < 2 /\ api_status' = [api_status EXCEPT !.current = @ + 1]
       \/ api_status' = [api_status EXCEPT !.is_complete = TRUE]
    /\ UNCHANGED <<OPTED_OUT_SHOPS, blacklist, handled, response>>
    /\ UNCHANGED not_api

\* the module is loaded: the blacklist is read, nothing is indexed yet
OptOutInit ==
    /\ feed_exists = FALSE
    /\ feed = "absent"
    /\ InitSeed
    /\ search = NoSearch
    /\ ScraperInit /\ LockInit
    /\ blacklist \in BlacklistFiles
    /\ OPTED_OUT_SHOPS = load_blacklist(blacklist)
    /\ api_status = [current |-> 0, is_complete |-> FALSE]
    /\ handled = {}
    /\ response = NoResponse

OptOutNext == OptOut \/ SearchImage \/ SeedProgress

OptOutSpec == OptOutInit /\ [][OptOutNext]_vars

TypeOK ==
    /\ pc \in {"idle", "scan", "loop", "final", "done", "raised"}
    /\ run \in 0..MaxRuns
    /\ idx \in 0..Len(items_to_process)

(***************************************************************************)
(* Properties.                                                             *)
(***************************************************************************)
AllCallsOk == \A i \in 1..Len(upsert_calls) : upsert_calls[i].ok

LastCall == upsert_calls[Len(upsert_calls)]

\* a remote reference that is fetched, decoded and embedded without failure
ReliableUrl(ref) ==
    is_url(ref) /\ ref \notin FlakyRefs \cup CorruptUrls \cup UnembeddableRefs

\* a local reference whose file is found and decodes
ReadableFile(ref) ==
    /\ ~is_url(ref)
    /\ path_exists(ResolveLocal(ref)[1], ResolveLocal(ref)[2])
    /\ ResolveLocal(ref) \notin CorruptFiles

\* the run before the current one
Previous == audit.before[Len(audit.before)]

\* C1: an image whose identity is in the existing-index set is never
\* fetched, never embedded and never part of a submitted or pending point;
\* an item with one indexed and one new image gives exactly one embedding and
\* one point, and a feed of that one item one upsert of that one point.
C1_IndexedImagesSkipped ==
    /\ last.kind \in {"processed", "exception"} =>
           \A ref \in SeqSet(last.fetched) \cup SeqSet(last.embedded) :
               get_stable_uuid(ref) \notin existing_ids
    /\ \A i \in 1..Len(upsert_calls) : upsert_calls[i].ids \cap existing_ids = {}
    /\ SeqIds(batch_points) \cap existing_ids = {}
    /\ ( /\ last.kind = "processed"
         /\ Len(last.item.images) = 2
         /\ get_stable_uuid(last.item.images[1]) \in existing_ids
         /\ get_stable_uuid(last.item.images[2]) \notin existing_ids
         /\ ReliableUrl(last.item.images[2]) )
       => /\ last.fetched = <<last.item.images[2]>>
          /\ last.embedded = <<last.item.images[2]>>
          /\ Len(last.added) = 1
          /\ last.added[1].id = get_stable_uuid(last.item.images[2])
    /\ (pc = "done" /\ feed_exists /\ feed = "one_old_one_new"
          /\ audit.scan_ok /\ AllCallsOk /\ run = 1)
       => /\ Len(upsert_calls) = 1
          /\ upsert_calls[1].size = 1
          /\ upsert_calls[1].ids = {get_stable_uuid(Http(101))}

C1_Witness ==
    /\ pc = "done" /\ feed_exists /\ feed = "one_old_one_new" /\ run = 1
    /\ get_stable_uuid(Http(1)) \in existing_ids
    /\ last.embedded = <<Http(101)>>
    /\ Len(upsert_calls) = 1 /\ upsert_calls[1].ok
    /\ get_stable_uuid(Http(101)) \in PointIds(store)

\* C2: a run whose upserts all succeed and that produced N points made
\* ceil(N / 50) upsert calls.
C2_UpsertCountIsCeil ==
    (pc = "done" /\ AllCallsOk) =>
        Len(upsert_calls) = (img_count + BATCH_SIZE - 1) \div BATCH_SIZE

C4_LoopEndsAtSkipLimit == consecutive_skips >= SKIP_LIMIT => pc # "loop"

\* C5: the counter is zero when the loop starts; after an item with images
\* and a url it is the previous value plus one if every image identity of the
\* item is in the existing-index set, and zero if the item added a point.
C5_CounterRule ==
    /\ (pc = "loop" /\ idx = 0) => consecutive_skips = 0
    /\ last.kind = "processed" =>
          /\ NotIndexed(last.item, existing_ids) = {} =>
                 consecutive_skips = last.skips_before + 1
          /\ last.added # <<>> => consecutive_skips = 0

C5_Witness ==
    /\ last.kind = "processed" /\ last.added # <<>>
    /\ last.skips_before > 0 /\ consecutive_skips = 0

C7_UpsertFailureFatal ==
    \A i \in 1..Len(upsert_calls) :
        ~upsert_calls[i].ok => pc = "raised" /\ i = Len(upsert_calls)

\* C8: a fetch, decode or embedding failure never aborts the run: the loop
\* ends only after the last item or by the early exit, always into the final
\* flush, and seed_data raises only from a failed final upsert.
C8_ImageFailureNeverAborts ==
    /\ pc = "raised" =>
          upsert_calls # <<>> /\ LastCall.final /\ ~LastCall.ok
    /\ pc = "loop" => idx < Len(items_to_process)
    /\ (pc \in {"final", "done", "raised"} /\ run >= 1) =>
          \/ idx = Len(items_to_process)
          \/ consecutive_skips >= SKIP_LIMIT

C8_Witness ==
    /\ pc = "done" /\ run = 1 /\ idx = Len(items_to_process)
    /\ Http(105) \in audit.missed
    /\ Http(90) \in audit.missed
    /\ get_stable_uuid(Http(101)) \in PointIds(store)

\* C9: when an image of an item fails to fetch or to decode, the points of
\* the item's other not-yet-indexed images (images that are themselves
\* fetched, decoded and embedded without failure) are still added to the
\* batch.
C9_OtherImagesKept ==
    ( /\ last.kind \in {"processed", "exception"}
      /\ NotIndexed(last.item, existing_ids) \cap UnembeddableRefs = {} )
    => \A ref \in NotIndexed(last.item, existing_ids) :
           (ReliableUrl(ref) \/ ReadableFile(ref)) =>
               \E i \in 1..Len(last.added) :
                   /\ last.added[i].id = get_stable_uuid(ref)
                   /\ last.added[i].id \in SeqIds(batch_points)
                                           \cup audit.produced

\* C10 as claimed: a run that has ended has set is_complete.
C10_EveryRunCompletes ==
    pc \in {"done", "raised"} => indexing_status.is_complete

\* C10: a run that has started ends with is_complete set, unless its final
\* upsert raises; a run that returned has is_complete set.
C10_CompletesUnlessFinalUpsertRaises ==
    /\ [](pc \in {"scan", "loop", "final"} =>
             <>( \/ pc = "done" /\ indexing_status.is_complete
                 \/ pc = "raised" /\ LastCall.final /\ ~LastCall.ok ))
    /\ [](pc = "done" => indexing_status.is_complete)

C10_Witness ==
    /\ pc = "done" /\ run = 1 /\ indexing_status.is_complete
    /\ consecutive_skips >= SKIP_LIMIT /\ idx < Len(items_to_process)

\* the index in the feed of the last record with the url
LastRecord(url) ==
    LET lines == FeedFile(feed)
    IN  CHOOSE i \in 1..Len(lines) :
            /\ "url" \in DOMAIN lines[i] /\ lines[i].url = url
            /\ \A j \in (i + 1)..Len(lines) :
                   ~("url" \in DOMAIN lines[j] /\ lines[j].url = url)

\* the urls of the records of the feed
FeedUrls ==
    LET lines == FeedFile(feed)
    IN  {lines[i].url : i \in {j \in 1..Len(lines) : "url" \in DOMAIN lines[j]}}

\* C11: after each item of the loop, whatever became of it, current is the
\* number of items taken so far and last_item is the title of that item.
C11_ProgressAfterEveryItem ==
    (last.kind # "none" /\ pc \in {"loop", "final", "done", "raised"}) =>
        /\ indexing_status.current = idx
        /\ indexing_status.last_item = Get(last.item, "title", None)

\* C12: 0 <= current <= total in every state, and within a run current
\* never decreases and is_complete never goes from true to false.
C12_ProgressMonotonic ==
    /\ [](0 <= indexing_status.current
            /\ indexing_status.current <= indexing_status.total)
    /\ [][run' = run =>
             /\ indexing_status'.current >= indexing_status.current
             /\ indexing_status.is_complete => indexing_status'.is_complete]_vars

\* C13: while a run is scanning or in its loop, is_complete is false.
C13_IncompleteWhileRunning ==
    pc \in {"scan", "loop"} => ~indexing_status.is_complete

\* C14: the working set a run has loaded holds exactly one item for every
\* url of the feed, that item is the last record of the feed with the url,
\* and no record without a url is in it.
C14_LastWriteWins ==
    (pc = "scan" /\ audit.scans = 0) =>
        /\ \A k \in 1..Len(items_to_process) :
               /\ "url" \in DOMAIN items_to_process[k]
               /\ items_to_process[k] =
                      FeedFile(feed)[LastRecord(items_to_process[k].url)]
        /\ {items_to_process[k].url : k \in 1..Len(items_to_process)} = FeedUrls
        /\ Len(items_to_process) = Cardinality(FeedUrls)

C14_Witness ==
    /\ pc = "scan" /\ audit.scans = 0 /\ feed = "mixed"
    /\ Len(items_to_process) = 10
    /\ \E k \in 1..Len(items_to_process) :
          items_to_process[k] = Item(1, <<Http(1), Http(101)>>)

\* C15: when the loop has taken an item, every item of the working set whose
\* retained record is later in the feed was taken before it.
C15_NewestFirst ==
    (last.kind # "none" /\ pc \in {"loop", "final", "done", "raised"}) =>
        \A k \in 1..Len(items_to_process) :
            LastRecord(items_to_process[k].url) > LastRecord(last.item.url)
                => Len(items_to_process) + 1 - k < idx

\* C16: a run started while the feed file is absent is over at once: it has
\* returned with is_complete true, total, current and last_item as they
\* were, the store as it was, and no scroll call, fetch or upsert made.
C16_AbsentFeed ==
    [][(~feed_exists /\ run' = run + 1) =>
          /\ pc' = "done"
          /\ indexing_status' = [indexing_status EXCEPT !.is_complete = TRUE]
          /\ store' = store
          /\ audit'.scans = 0
          /\ upsert_calls' = <<>>
          /\ last' = NoItem
          /\ batch_points' = <<>>]_vars

C16_Witness ==
    /\ ~feed_exists /\ pc = "done" /\ run = 2
    /\ Previous.outcome = "raised"
    /\ indexing_status.is_complete
    /\ indexing_status.total = 10 /\ indexing_status.current = 10
    /\ audit.scans = 0 /\ upsert_calls = <<>>

\* C17: a run whose scan raised goes on: it enters the loop (seed_data
\* raises only from a failed final upsert, and the loop runs to the last
\* item or to the early exit), the existing-index set is the ids of the pages
\* before the failure, and no image with such an id is fetched or embedded.
C17_ScanFailureKeepsPartialSet ==
    ~audit.scan_ok =>
        /\ pc \in {"loop", "final", "done", "raised"}
        /\ pc = "raised" => LastCall.final /\ ~LastCall.ok
        /\ pc \in {"final", "done", "raised"} =>
               idx = Len(items_to_process) \/ consecutive_skips >= SKIP_LIMIT
        /\ (idx = 0 /\ upsert_calls = <<>>) =>
               existing_ids =
                   FirstIds(PointIds(store), (audit.scans - 1) * PageLimit)
        /\ last.kind \in {"processed", "exception"} =>
               \A ref \in SeqSet(last.fetched) \cup SeqSet(last.embedded) :
                   get_stable_uuid(ref) \notin existing_ids

C17_Witness ==
    /\ ~audit.scan_ok /\ audit.scans = 2 /\ run = 1
    /\ existing_ids = {get_stable_uuid(Http(1)), get_stable_uuid(Http(2))}
    /\ feed = "one_old_one_new" /\ pc = "done"
    /\ last.fetched = <<Http(101)>>

\* C18: a scan none of whose calls fails ends after one call per page of the
\* store, and the existing-index set it leaves is the set of all the ids in
\* the store.
C18_FullScan ==
    /\ pc = "scan" => audit.scan_ok /\ audit.scans < PagesOf(store)
    /\ (pc \in {"loop", "final"} /\ idx = 0 /\ upsert_calls = <<>>
          /\ audit.scan_ok) =>
           /\ existing_ids = PointIds(store)
           /\ audit.scans = PagesOf(store)

C18_Witness ==
    /\ pc = "loop" /\ idx = 0 /\ audit.scan_ok
    /\ audit.scans >= 2 /\ Cardinality(existing_ids) > Cardinality(InitStore)
    /\ existing_ids = PointIds(store)

\* C19: a remote image is given at most 3 GET attempts: one more than the
\* attempts that failed when fewer than 3 failed (the first success ends
\* them), and 3 when 3 failed, after which the image has no embedding and no
\* point.
C19_AtMostThreeAttempts ==
    last.kind \in {"processed", "exception"} =>
        \A i \in 1..Len(last.attempts) :
            LET a == last.attempts[i]
            IN  /\ a.made \in 1..MAX_ATTEMPTS
                /\ a.failed < MAX_ATTEMPTS => a.made = a.failed + 1
                /\ a.failed >= MAX_ATTEMPTS =>
                       /\ a.made = MAX_ATTEMPTS
                       /\ a.ref \notin SeqSet(last.embedded)
                       /\ get_stable_uuid(a.ref) \notin SeqIds(last.added)

C19_Witness ==
    /\ last.kind = "processed"
    /\ \E i \in 1..Len(last.attempts) :
          /\ last.attempts[i].ref = Http(90)
          /\ last.attempts[i].failed = 3 /\ last.attempts[i].made = 3
    /\ SeqIds(last.added) = {get_stable_uuid(Http(104))}

C26_OnePointPerReference ==
    LET remote == {p \in store : is_url(p.payload.thumbnailUrl)}
    IN  /\ Cardinality(PointIds(store)) = Cardinality(store)
        /\ Cardinality({p.payload.thumbnailUrl : p \in remote})
               = Cardinality(remote)

C26_Witness ==
    /\ feed = "dups" /\ pc = "done" /\ run = 2
    /\ upsert_calls # <<>> /\ LastCall.ok
    /\ LastCall.size = 4 /\ Cardinality(LastCall.ids) = 2
    /\ Cardinality({p \in store : p.id = get_stable_uuid(Http(201))}) = 1

\* the points an item added for a reference
AddedFor(ref) ==
    {last.added[i] : i \in {k \in 1..Len(last.added) :
                               last.added[k].id = get_stable_uuid(ref)}}

\* C27: a relative reference that is not indexed gives a point read from
\* local_root/path when that file exists, else from
\* local_root/raw_images/basename(path) when that file exists, else no point;
\* the fallback file is never read when the literal one exists.
C27_LocalResolution ==
    last.kind = "processed" =>
        \A ref \in NotIndexed(last.item, existing_ids) :
            ~is_url(ref) =>
                IF path_exists(ref.dir, ref.name)
                THEN /\ AddedFor(ref) # {}
                     /\ \A p \in AddedFor(ref) :
                            p.vector = Embedding(Local(ref.dir, ref.name))
                ELSE IF path_exists("raw_images", ref.name)
                THEN /\ AddedFor(ref) # {}
                     /\ \A p \in AddedFor(ref) :
                            p.vector = Embedding(Local("raw_images", ref.name))
                ELSE AddedFor(ref) = {}

C27_Witness ==
    /\ last.kind = "processed"
    /\ last.item.images = <<Local("images", 80), Local("images", 81),
                            Local("images", 82)>>
    /\ Len(last.added) = 2
    /\ last.added[1].vector = Embedding(Local("images", 80))
    /\ last.added[2].vector = Embedding(Local("raw_images", 81))

\* C28: when a run has ended, each of the img_count points it added to the
\* batch is in exactly one of its upsert calls.
C28_ExactlyOneUpsertPerPoint ==
    pc \in {"done", "raised"} =>
        \A n \in 1..img_count :
            Cardinality({i \in 1..Len(upsert_calls) :
                            upsert_calls[i].lo <= n /\ n <= upsert_calls[i].hi}) = 1

\* C29: an upsert call made in the loop carries exactly 50 points, the final
\* one between 1 and 50, and the pending batch never holds more than 50.
C29_FixedSizeBatches ==
    /\ \A i \in 1..Len(upsert_calls) :
          IF upsert_calls[i].final
          THEN upsert_calls[i].size \in 1..BATCH_SIZE
          ELSE upsert_calls[i].size = BATCH_SIZE
    /\ Len(batch_points) <= BATCH_SIZE

\* C30: once the loop has begun, no step changes the existing-index set.
C30_ExistingSetReadOnly ==
    [][(pc \in {"loop", "final"}) => existing_ids' = existing_ids]_vars

C30_Witness ==
    /\ pc = "loop" /\ upsert_calls # <<>> /\ LastCall.ok
    /\ LastCall.ids \cap existing_ids = {}
    /\ LastCall.ids \subseteq PointIds(store)
    /\ batch_points = <<>>

\* the item the loop takes next
NextItem == Reversed(items_to_process, idx + 1)

\* C34: an item whose images list is missing or empty, or whose url is
\* empty, is skipped entirely: the step that takes it fetches and embeds
\* nothing, makes no point and no upsert call, and leaves the consecutive
\* counter, the pending batch and the store as they were.
C34_ItemWithoutImagesOrUrlSkipped ==
    [][(/\ pc = "loop" /\ idx < Len(items_to_process) /\ idx' = idx + 1
        /\ \/ Get(NextItem, "images", <<>>) = <<>>
           \/ Get(NextItem, "url", "") = "")
       => /\ last' = [kind |-> "skipped", item |-> NextItem]
          /\ consecutive_skips' = consecutive_skips
          /\ batch_points' = batch_points
          /\ img_count' = img_count
          /\ upsert_calls' = upsert_calls
          /\ store' = store
          /\ audit' = audit]_vars

C34_Witness ==
    /\ feed = "mixed" /\ last.kind = "skipped"
    /\ last.item = [url |-> "", images |-> <<Http(103)>>, title |-> Title(4)]
    /\ batch_points # <<>> /\ consecutive_skips = 0
    /\ get_stable_uuid(Http(103)) \notin SeqIds(batch_points) \cup existing_ids

\* C35: the waits between the fetch attempts of one image follow an
\* exponential backoff from 2, capped at 10: the wait before the second
\* attempt is 2, the wait before the third is twice the wait before it, and
\* no wait is below 2 or above 10.
C35_ExponentialBackoff ==
    last.kind \in {"processed", "exception"} =>
        \A i \in 1..Len(last.attempts) :
            LET w == last.attempts[i].waits
            IN  /\ Len(w) = last.attempts[i].made - 1
                /\ Len(w) >= 1 => w[1] = 2
                /\ Len(w) >= 2 => w[2] = 2 * w[1]
                /\ \A k \in 1..Len(w) : w[k] >= 2 /\ w[k] <= 10

\* C36: an item with an image identity outside the existing-index set, whose
\* processing ends without an exception, leaves the consecutive counter at
\* zero, also when it gave no point; the counter grows only by an item whose
\* image identities are all in the existing-index set.
C36_NewImageResetsCounter ==
    [][/\ (last' # last /\ last'.kind = "processed"
           /\ NotIndexed(last'.item, existing_ids) # {}
           /\ (Len(upsert_calls') > Len(upsert_calls) => LastCall'.ok))
          => consecutive_skips' = 0
       /\ (pc = "loop" /\ consecutive_skips' > consecutive_skips)
          => /\ last'.kind = "processed"
             /\ NotIndexed(last'.item, existing_ids) = {}
             /\ consecutive_skips' = consecutive_skips + 1]_vars

C36_Witness ==
    /\ feed = "unfetchable" /\ last.kind = "processed"
    /\ last.item = Item(31, <<Http(91)>>)
    /\ last.skips_before = 1 /\ last.added = <<>> /\ last.embedded = <<>>
    /\ consecutive_skips = 0 /\ batch_points = <<>>

\* C37: in one run no identity is embedded or submitted more than once:
\* every upsert call of the run carries as many identities as points, and no
\* two calls of the run share an identity.
C37_IdentitySubmittedOnce ==
    /\ \A i \in 1..Len(upsert_calls) :
          Cardinality(upsert_calls[i].ids) = upsert_calls[i].size
    /\ \A i, j \in 1..Len(upsert_calls) :
          i < j => upsert_calls[i].ids \cap upsert_calls[j].ids = {}
    /\ last.kind = "processed" =>
          Cardinality(SeqSet(last.embedded)) = Len(last.embedded)

\* the points a call carries, by their number in the order the run added them
CallPoints(call) == call.lo..call.hi

\* C38: the points of an upsert call that failed in the loop are not lost:
\* right after the failure they are the pending batch, they stay in it while
\* the run goes on, and a later upsert call of the run contains them all.
C38_FailedBatchResubmitted ==
    \A i \in 1..Len(upsert_calls) :
        (~upsert_calls[i].ok /\ ~upsert_calls[i].final) =>
            /\ i = Len(upsert_calls) /\ pc \in {"loop", "final"} =>
                  /\ Len(batch_points) = upsert_calls[i].size
                  /\ SeqIds(batch_points) = upsert_calls[i].ids
            /\ \/ \E j \in (i + 1)..Len(upsert_calls) :
                     CallPoints(upsert_calls[i]) \subseteq CallPoints(upsert_calls[j])
               \/ /\ pc \in {"loop", "final"}
                  /\ CallPoints(upsert_calls[i])
                         \subseteq (img_count - Len(batch_points) + 1)..img_count

C38_Witness ==
    /\ pc = "done"
    /\ \E i \in 1..Len(upsert_calls) :
          /\ ~upsert_calls[i].ok /\ ~upsert_calls[i].final
          /\ upsert_calls[i].size >= BATCH_SIZE
          /\ \E j \in (i + 1)..Len(upsert_calls) :
                /\ upsert_calls[j].ok
                /\ CallPoints(upsert_calls[i]) \subseteq CallPoints(upsert_calls[j])
          /\ upsert_calls[i].ids \subseteq PointIds(store)

(***************************************************************************)
(* Properties of the scraper.                                              *)
(***************************************************************************)
\* the indexes whose task holds the write lock's section
Recording == {k \in 1..Len(tasks) : tasks[k] = "recording"}

\* C31: once the budget is exceeded the scraper starts no new unit of work:
\* phase 1 loads no further search page, and no future of phase 2 that has
\* not started begins to fetch its item.
C31_NoNewWorkAfterTimeout ==
    [][timed_out =>
          /\ sc_pc = "phase1" => sc_pc' = "killed"
          /\ (sc_pc = "phase2" /\ sc_pc' = "phase2") =>
                \A k \in 1..Len(tasks) :
                    tasks[k] = "queued" => tasks'[k] # "fetching"]_vars

\* C39: in phase 2 at most one task at a time is between taking and
\* releasing the write lock (the append, the done-map and the progress), the
\* run appends at most one record for a url, and none for a url that had a
\* record when the run began.
C39_WritesExclusiveAndOncePerUrl ==
    sc_pc = "phase2" =>
        /\ Cardinality(Recording) <= 1
        /\ \A k \in Recording : write_lock = k - 1
        /\ Recording = {} => write_lock = Unlocked
        /\ \A u \in SiteUrls :
              /\ phase2_output[u] - output_at_start[u] \in {0, 1}
              /\ output_at_start[u] > 0 => phase2_output[u] = output_at_start[u]

C39_Witness ==
    /\ sc_pc = "phase2" /\ sc_run = 2
    /\ Cardinality(Running) = MAX_WORKERS
    /\ Cardinality(Recording) = 1
    /\ Cardinality({k \in 1..Len(tasks) : tasks[k] = "fetched"}) >= 2
    /\ output_at_start[Url(1)] = 1
    /\ \E u \in SiteUrls : phase2_output[u] > output_at_start[u]

\* C40: phase 2 resumes without losing work: every item of phase 1 that has
\* no record in the phase 2 output when a run of phase 2 begins is attempted
\* by that run.
C40_ResumeAttemptsEveryMissingItem ==
    sc_pc = "phase2" =>
        \A k \in 1..Len(items_list) :
            output_at_start[items_list[k].url] = 0 => tasks[k] # "unsubmitted"

\* the processes that have returned from acquire_lock and run
Holders == {p \in Pids : procs[p].pc = "running"}

\* C32: the lock file keeps the scraper to one instance: at any time at most
\* one process has returned from acquire_lock and is still running.
C32_OneInstance == Cardinality(Holders) <= 1

ProductOf(hit) == Get(hit.payload, "boothUrl", None)

\* the position of a hit among the raw candidates
RankOf(hit) == CHOOSE j \in 1..Len(search.raw_results) : search.raw_results[j] = hit

\* C20: the result of a search is a subsequence of the raw candidates (its
\* hits are raw hits, in increasing rank), no two of its hits share a
\* boothUrl, and each is the highest-ranked raw hit of its product; for the
\* raw candidates [(1,A),(2,A),(3,B)] and limit 2 it is [hit 1, hit 3].
C20_FirstOccurrencePerProduct ==
    search.pc = "returned" =>
        LET raw == search.raw_results
            res == search.unique_results
        IN  /\ \A i \in 1..Len(res) : \E j \in 1..Len(raw) : raw[j] = res[i]
            /\ \A i \in 1..Len(res), k \in 1..Len(res) :
                   i < k => /\ RankOf(res[i]) < RankOf(res[k])
                            /\ ProductOf(res[i]) # ProductOf(res[k])
            /\ \A i \in 1..Len(res) : \A j \in 1..Len(raw) :
                   ProductOf(raw[j]) = ProductOf(res[i]) => RankOf(res[i]) <= j
            /\ (raw = <<Hit(1, 1), Hit(2, 1), Hit(3, 2)>> /\ search.limit = 2)
                   => res = <<Hit(1, 1), Hit(3, 2)>>

C20_Witness ==
    /\ search.pc = "returned" /\ search.limit = 2
    /\ search.raw_results = <<Hit(1, 1), Hit(2, 1), Hit(3, 2)>>
    /\ search.unique_results = <<Hit(1, 1), Hit(3, 2)>>

\* the product keys among the raw candidates
RawProducts == {ProductOf(search.raw_results[j]) : j \in 1..Len(search.raw_results)}

\* C21: a search with limit >= 0 returns min(limit, number of distinct
\* product keys among the raw candidates) hits.
C21_ResultCount ==
    search.pc = "returned" =>
        Len(search.unique_results) = Min(search.limit, Cardinality(RawProducts))

C21_Witness ==
    /\ search.pc = "returned" /\ search.limit = 2
    /\ Len(search.raw_results) = 4
    /\ Cardinality(RawProducts) = 1
    /\ Len(search.unique_results) = 1

\* C22: a search makes exactly one query of the store, and asks it for
\* limit * 3 candidates.
C22_OneQueryOfThreeTimesLimit ==
    search.pc = "returned" =>
        /\ Len(search.queries) = 1
        /\ search.queries[1].limit = search.limit * 3

C22_Witness ==
    /\ search.pc = "returned" /\ search.limit = 2
    /\ search.queries = <<[query_filter |-> NoQueryFilter, limit |-> 6]>>
    /\ Len(search.raw_results) = 3
    /\ Len(search.unique_results) = 1

\* the filter as claimed: the point's category is the requested one, it has
\* one of the requested avatars and one of the requested colors (each clause
\* only when requested), and its shop is not excluded
ClaimedPass(payload) ==
    /\ (search.category # None => payload.category = search.category)
    /\ (search.avatars # <<>> =>
           SeqSet(payload.avatars) \cap SeqSet(search.avatars) # {})
    /\ (search.colors # <<>> =>
           SeqSet(payload.colors) \cap SeqSet(search.colors) # {})
    /\ payload.shopName \notin search.excluded_shops

\* C23: the candidates of a search are the nearest points that pass the
\* filter with the requested values OR'd within an attribute and AND'd
\* across attributes.
C23_OrWithinAndAcross ==
    search.pc = "returned" =>
        LET passing == SelectSeq(search.ranked, LAMBDA p : ClaimedPass(p.payload))
        IN  search.raw_results =
                SubSeq(passing, 1, Min(Len(passing), search.limit * 3))

\* the points of the collection that are not of an excluded shop and pass
\* the must conditions of the call's filter
Eligible(p) ==
    /\ p.payload.shopName \notin search.excluded_shops
    /\ \A i \in 1..Len(search.queries) :
           LET f == search.queries[i].query_filter
           IN  f # NoQueryFilter =>
                   \A m \in 1..Len(f.must) : Satisfies(p.payload, f.must[m])

\* C24: no hit a search returns is of an excluded shop, and the exclusion
\* comes before the cut: an eligible point with fewer than limit * 3
\* eligible points nearer than it is among the raw candidates.
C24_ExcludedShops ==
    search.pc = "returned" =>
        /\ \A i \in 1..Len(search.unique_results) :
               search.unique_results[i].payload.shopName
                   \notin search.excluded_shops
        /\ \A j \in 1..Len(search.raw_results) :
               search.raw_results[j].payload.shopName \notin search.excluded_shops
        /\ \A i \in 1..Len(search.ranked) :
               ( /\ Eligible(search.ranked[i])
                 /\ Cardinality({j \in 1..(i - 1) : Eligible(search.ranked[j])})
                        < search.limit * 3 )
               => \E j \in 1..Len(search.raw_results) :
                      search.raw_results[j] = search.ranked[i]

C24_Witness ==
    /\ search.pc = "returned" /\ search.limit = 1
    /\ search.excluded_shops = {"shop-x"} /\ search.avatars = <<>>
    /\ search.ranked = <<Hit(1, 1), Hit(2, 3), Hit(3, 1), Hit(4, 2)>>
    /\ search.unique_results = <<Hit(4, 2)>>

====
